---------------------------- MODULE Spec2Model ----------------------------
(***************************************************************************)
(* A model of SymboScript's front end and scope vault:                     *)
(*   - the interpreter's scope vault (interpreter/mod.rs),                 *)
(*   - the lexer (lexer/mod.rs),                                           *)
(*   - the recursive-descent parser (parser/mod.rs, parser/macro_utils.rs).*)
(* Text (scope paths, source code) is modelled as sequences of one-        *)
(* character strings, so that format!, rsplit_once, parse::<usize> and the *)
(* lexer's character classes are modelled by what they do.                 *)
(***************************************************************************)
EXTENDS Integers, Sequences, FiniteSets, TLC

VARIABLES
    \* ---- Interpreter (interpreter/mod.rs:6-20)
    scope_stack,    \* Vec<String>: the active chain of scope paths
    current_scope,  \* String: the path on top of the stack
    vault,          \* HashMap<String, ScopeValue>
    frames,         \* eval_statement's recursion: the open Scope/Block statements
    evaluated,      \* how many statements eval_statement has been called on
    last_op,        \* the operation of the interpreter that ran last
    \* ---- Lexer (lexer/mod.rs:5-14) and its tokenize loop
    source,         \* &str: the source text
    chars,          \* Chars: how many characters of the source were yielded
    scans,          \* what next_token returns at each position of the source
    tokens,         \* tokenize's Vec<Token>
    lex_state,      \* "idle", "tokenizing", "done" or "failed" (error reported)
    \* ---- Parser (parser/mod.rs:17-23) and the loop of its top-level body()
    parser,         \* the Parser: its lexer, cur_token, and the report that ended it
    program_body,   \* the Vec<Statement> of the top-level body()
    parse_state     \* "idle", "new", "body", "done" or "failed" (error reported)

ivars == <<scope_stack, current_scope, vault, frames, evaluated, last_op>>

lvars == <<source, chars, scans, tokens, lex_state>>

pvars == <<parser, program_body, parse_state>>

vars == <<scope_stack, current_scope, vault, frames, evaluated, last_op,
          source, chars, scans, tokens, lex_state, parser, program_body,
          parse_state>>

-----------------------------------------------------------------------------
(* Bounds of the model *)

\* how many statements the walked program holds at most
MaxStatements == 5
\* how many characters a source text given to tokenize() holds at most
MaxSourceLen == 4
\* how many parameters a parsed function declaration lists at most
MaxParams == 2
\* how many operands a parsed operator chain holds at most
MaxOperands == 3

-----------------------------------------------------------------------------
(* Text helpers *)

DigitChars == <<"0", "1", "2", "3", "4", "5", "6", "7", "8", "9">>

IsDigit(c) == \E d \in 1..10 : DigitChars[d] = c

DigitValue(c) == (CHOOSE d \in 1..10 : DigitChars[d] = c) - 1

\* format!("{}", n) of a usize
RECURSIVE FormatUsize(_)
FormatUsize(n) ==
    IF n < 10 THEN <<DigitChars[n + 1]>>
    ELSE FormatUsize(n \div 10) \o <<DigitChars[(n % 10) + 1]>>

\* str::parse::<usize>: -1 stands for Err (the caller unwraps)
RECURSIVE ParseDigits(_, _)
ParseDigits(s, acc) ==
    IF s = <<>> THEN acc
    ELSE ParseDigits(Tail(s), acc * 10 + DigitValue(Head(s)))

ParseUsize(s) ==
    IF s = <<>> \/ \E i \in 1..Len(s) : ~IsDigit(s[i]) THEN -1
    ELSE ParseDigits(s, 0)

\* the last index at or before i where ".$" starts in s, or 0
RECURSIVE RFindDotDollar(_, _)
RFindDotDollar(s, i) ==
    IF i < 1 THEN 0
    ELSE IF s[i] = "." /\ s[i + 1] = "$" THEN i
    ELSE RFindDotDollar(s, i - 1)

\* str::rsplit_once(".$"): <<>> stands for None
RSplitOnceDotDollar(s) ==
    LET i == RFindDotDollar(s, Len(s) - 1)
    IN  IF i = 0 THEN <<>>
        ELSE <<SubSeq(s, 1, i - 1), SubSeq(s, i + 2, Len(s))>>

-----------------------------------------------------------------------------
(* Scope vault: data *)

StdScope == <<"s", "t", "d", ".", "$", "0">>
GlobalScope == <<"g", "l", "o", "b", "a", "l", ".", "$", "0">>

Foo == <<"F", "o", "o">>
Bar == <<"B", "a", "r">>
\* the identifiers of the scope declarations the walked programs contain
ScopeNames == {Foo, Bar}

\* the identifiers the walked programs bind
BindNames == {<<"b">>}

\* HashMap::new()
EmptyMap == [k \in {} |-> 0]

\* HashMap::insert
MapInsert(m, k, v) == [x \in (DOMAIN m) \cup {k} |-> IF x = k THEN v ELSE m[x]]

\* HashMap::remove
MapRemove(m, k) == [x \in (DOMAIN m) \ {k} |-> m[x]]

\* ScopeValue::new()
NewScopeValue == [values |-> EmptyMap, named_scope_refs |-> <<>>]

NativeFunction(f) == [tag |-> "NativeFunction", v |-> f]
Value(x) == [tag |-> "Value", v |-> x]

\* what add_native_functions inserts
NativeFunctions ==
    {<<<<"p", "r", "i", "n", "t">>, "Print">>,
     <<<<"p", "r", "i", "n", "t", "l", "n">>, "Println">>}

Last(s) == s[Len(s)]
Pop(s) == SubSeq(s, 1, Len(s) - 1)


-----------------------------------------------------------------------------
(* Scope vault: the interpreter's methods, as functions of the interpreter  *)
(* state st = [scope_stack, current_scope, vault, panicked].  A failed      *)
(* unwrap() panics: the run is over and the state stays as it was.          *)

\* Interpreter::new
NewInterpreter ==
    [scope_stack |-> <<>>, current_scope |-> <<>>, vault |-> EmptyMap,
     panicked |-> FALSE]

Panic(st) == [st EXCEPT !.panicked = TRUE]

update_current_scope(st) ==
    IF st.panicked THEN st
    ELSE IF st.scope_stack = <<>> THEN Panic(st)
    ELSE [st EXCEPT !.current_scope = Last(st.scope_stack)]

\* the (scope_name, num) pair, or ok = FALSE where an unwrap() panics
parse_current_scope(st) ==
    LET sp == RSplitOnceDotDollar(st.current_scope)
    IN  IF sp = <<>> THEN [ok |-> FALSE, scope_name |-> <<>>, num |-> 0]
        ELSE LET n == ParseUsize(sp[2])
             IN  IF n < 0 THEN [ok |-> FALSE, scope_name |-> <<>>, num |-> 0]
                 ELSE [ok |-> TRUE, scope_name |-> sp[1], num |-> n]

\* get_curr_value().insert(name, value)
curr_value_insert(st, name, value) ==
    IF st.panicked THEN st
    ELSE IF st.current_scope \notin DOMAIN st.vault THEN Panic(st)
    ELSE [st EXCEPT !.vault[st.current_scope].values = MapInsert(@, name, value)]

\* get_curr_scope_refs(), or <<>> with ok = FALSE where the unwrap() panics
get_curr_scope_refs(st) ==
    IF st.current_scope \in DOMAIN st.vault
    THEN [ok |-> TRUE, refs |-> st.vault[st.current_scope].named_scope_refs]
    ELSE [ok |-> FALSE, refs |-> <<>>]

add_native_functions(st) ==
    curr_value_insert(
        curr_value_insert(st, <<"p", "r", "i", "n", "t">>, NativeFunction("Print")),
        <<"p", "r", "i", "n", "t", "l", "n">>, NativeFunction("Println"))

init_scope(st, scope_name) ==
    IF st.panicked THEN st
    ELSE update_current_scope(
            [st EXCEPT !.vault = MapInsert(@, scope_name, NewScopeValue),
                       !.scope_stack = Append(@, scope_name)])

\* initialize with the native functions registered after global.$0 is pushed
initialize_NativesInGlobal(st) ==
    LET s1 == init_scope(st, StdScope)
        s2 == init_scope(s1, GlobalScope)
    IN  add_native_functions(s2)

initialize(st) ==
    LET s1 == init_scope(st, StdScope)
        s2 == add_native_functions(s1)
    IN  init_scope(s2, GlobalScope)

send_scope_ref(st, name) ==
    IF st.panicked THEN st
    ELSE IF ~get_curr_scope_refs(st).ok THEN Panic(st)
    ELSE [st EXCEPT !.vault[st.current_scope].named_scope_refs = Append(@, name)]

\* format!("{}.{}.$0", scope_name, name)
NamedScopePath(scope_name, name) == scope_name \o <<".">> \o name \o <<".", "$", "0">>

\* format!("{}.${}", scope_name, num)
NumberedScopePath(scope_name, num) == scope_name \o <<".", "$">> \o FormatUsize(num)

\* enter_named_scope with the parent's numbered suffix kept in the new path
enter_named_scope_KeepSuffix(st, name) ==
    LET new_scope == NamedScopePath(st.current_scope, name)
    IN  IF st.panicked THEN st
        ELSE init_scope(send_scope_ref(st, new_scope), new_scope)

\* enter_named_scope without send_scope_ref
enter_named_scope_Unregistered(st, name) ==
    LET p == parse_current_scope(st)
    IN  IF st.panicked THEN st
        ELSE IF ~p.ok THEN Panic(st)
        ELSE init_scope(st, NamedScopePath(p.scope_name, name))

enter_named_scope(st, name) ==
    LET p == parse_current_scope(st)
    IN  IF st.panicked THEN st
        ELSE IF ~p.ok THEN Panic(st)
        ELSE LET new_scope == NamedScopePath(p.scope_name, name)
             IN  init_scope(send_scope_ref(st, new_scope), new_scope)

\* exit_named_scope that also deletes the record of the scope it leaves
exit_named_scope_RemovesRecord(st) ==
    IF st.panicked THEN st
    ELSE update_current_scope(
            [st EXCEPT !.vault = MapRemove(@, st.current_scope),
                       !.scope_stack = Pop(@)])

\* exit_named_scope without update_current_scope
exit_named_scope_StaleCurrent(st) ==
    IF st.panicked THEN st
    ELSE [st EXCEPT !.scope_stack = Pop(@)]

exit_named_scope(st) ==
    IF st.panicked THEN st
    ELSE update_current_scope([st EXCEPT !.scope_stack = Pop(@)])

\* increment_scope whose new record starts as a copy of the enclosing one
increment_scope_CopyBindings(st) ==
    LET p == parse_current_scope(st)
    IN  IF st.panicked THEN st
        ELSE IF ~p.ok THEN Panic(st)
        ELSE LET new_scope == NumberedScopePath(p.scope_name, p.num + 1)
                 s1 == init_scope(st, new_scope)
             IN  [s1 EXCEPT !.vault[new_scope] = st.vault[st.current_scope]]

increment_scope(st) ==
    LET p == parse_current_scope(st)
    IN  IF st.panicked THEN st
        ELSE IF ~p.ok THEN Panic(st)
        ELSE init_scope(st, NumberedScopePath(p.scope_name, p.num + 1))

\* the for loop of decrement_scope: vault.remove(ref_name) for each reference
RECURSIVE RemoveAll(_, _)
RemoveAll(v, refs) ==
    IF refs = <<>> THEN v ELSE RemoveAll(MapRemove(v, Head(refs)), Tail(refs))

\* decrement_scope without the loop over the named-scope references
decrement_scope_OwnRecordOnly(st) ==
    IF st.panicked THEN st
    ELSE update_current_scope(
            [st EXCEPT !.vault = MapRemove(@, st.current_scope),
                       !.scope_stack = Pop(@)])

\* decrement_scope that also removes the named children of the named
\* children it removes
decrement_scope_Cascade(st) ==
    LET scope == st.current_scope
        r == get_curr_scope_refs(st)
        inner == {q \in DOMAIN st.vault :
                     \E i \in 1..Len(r.refs) :
                        /\ r.refs[i] \in DOMAIN st.vault
                        /\ \E j \in 1..Len(st.vault[r.refs[i]].named_scope_refs) :
                              st.vault[r.refs[i]].named_scope_refs[j] = q}
    IN  IF st.panicked THEN st
        ELSE IF ~r.ok THEN Panic(st)
        ELSE update_current_scope(
                [st EXCEPT !.vault = [q \in (DOMAIN MapRemove(RemoveAll(@, r.refs), scope))
                                                \ inner |-> @[q]],
                           !.scope_stack = Pop(@)])

\* decrement_scope that pops the stack and leaves the vault as it is
decrement_scope_KeepsRecord(st) ==
    IF st.panicked THEN st
    ELSE IF ~get_curr_scope_refs(st).ok THEN Panic(st)
    ELSE update_current_scope([st EXCEPT !.scope_stack = Pop(@)])

decrement_scope(st) ==
    LET scope == st.current_scope
        r == get_curr_scope_refs(st)
    IN  IF st.panicked THEN st
        ELSE IF ~r.ok THEN Panic(st)
        ELSE update_current_scope(
                [st EXCEPT !.vault = MapRemove(RemoveAll(@, r.refs), scope),
                           !.scope_stack = Pop(@)])

-----------------------------------------------------------------------------
(* Scope vault: the state machine.  run() initializes and then walks the    *)
(* program; eval_statement enters and leaves a scope around the body of     *)
(* each ScopeDeclaration and BlockStatement.  The walked program is any     *)
(* nesting of such statements, chosen one statement at a time.              *)

Self ==
    [scope_stack |-> scope_stack, current_scope |-> current_scope,
     vault |-> vault, panicked |-> last_op = "panic"]

Becomes(st, op) ==
    /\ scope_stack' = st.scope_stack
    /\ current_scope' = st.current_scope
    /\ vault' = st.vault
    /\ last_op' = IF st.panicked THEN "panic" ELSE op

Running == last_op \notin {"new", "panic"}

\* the open statement's record of the scopes declared directly in its body
Declares(fs, path) ==
    IF fs = <<>> THEN fs
    ELSE [fs EXCEPT ![Len(fs)].decls = Append(@, path)]

IInit ==
    /\ scope_stack = NewInterpreter.scope_stack
    /\ current_scope = NewInterpreter.current_scope
    /\ vault = NewInterpreter.vault
    /\ frames = <<>>
    /\ evaluated = 0
    /\ last_op = "new"

\* run(): self.initialize()
Initialize ==
    /\ last_op = "new"
    /\ Becomes(initialize(Self), "initialize")
    /\ UNCHANGED <<frames, evaluated>>
    /\ UNCHANGED <<lvars, pvars>>

\* eval_statement, ScopeDeclaration: enter_named_scope, then the body
EnterNamedScope(name) ==
    /\ Running
    /\ evaluated < MaxStatements
    /\ evaluated' = evaluated + 1
    /\ LET st == enter_named_scope(Self, name)
       IN  /\ Becomes(st, "enter_named_scope")
           /\ frames' = Append(Declares(frames, st.current_scope),
                               [kind |-> "scope", decls |-> <<>>])
    /\ UNCHANGED <<lvars, pvars>>

\* eval_statement, ScopeDeclaration: the body is done, exit_named_scope
ExitNamedScope ==
    /\ Running
    /\ frames # <<>>
    /\ Last(frames).kind = "scope"
    /\ Becomes(exit_named_scope(Self), "exit_named_scope")
    /\ frames' = Pop(frames)
    /\ UNCHANGED evaluated
    /\ UNCHANGED <<lvars, pvars>>

\* eval_statement, BlockStatement: increment_scope, then the body
IncrementScope ==
    /\ Running
    /\ evaluated < MaxStatements
    /\ evaluated' = evaluated + 1
    /\ Becomes(increment_scope(Self), "increment_scope")
    /\ frames' = Append(frames, [kind |-> "block", decls |-> <<>>])
    /\ UNCHANGED <<lvars, pvars>>

\* eval_statement, BlockStatement: the body is done, decrement_scope
DecrementScope ==
    /\ Running
    /\ frames # <<>>
    /\ Last(frames).kind = "block"
    /\ Becomes(decrement_scope(Self), "decrement_scope")
    /\ frames' = Pop(frames)
    /\ UNCHANGED evaluated
    /\ UNCHANGED <<lvars, pvars>>

\* the evaluator registers a binding in the current scope
Bind(name) ==
    /\ Running
    /\ evaluated < MaxStatements
    /\ evaluated' = evaluated + 1
    /\ Becomes(curr_value_insert(Self, name, Value(1)), "bind")
    /\ UNCHANGED frames
    /\ UNCHANGED <<lvars, pvars>>

INext ==
    \/ Initialize
    \/ \E name \in ScopeNames : EnterNamedScope(name)
    \/ ExitNamedScope
    \/ IncrementScope
    \/ DecrementScope
    \/ \E name \in BindNames : Bind(name)

-----------------------------------------------------------------------------
(* Scope vault: properties *)

Range(f) == {f[i] : i \in DOMAIN f}

\* the named children recorded in the record of scope path p
Children(p) == Range(vault[p].named_scope_refs)

\* path minus its trailing ".$N"
PathPrefix(path) == RSplitOnceDotDollar(path)[1]

\* a step that enters a named scope this very parent entered before and
\* whose record is still in the vault
ReentersNamedScope ==
    /\ Running
    /\ last_op' = "enter_named_scope"
    /\ current_scope' \in DOMAIN vault
    /\ current_scope' \in Children(current_scope)

\* C1: scope reuse.  After enter_named_scope(n), a binding b registered in
\* the scope, exit_named_scope() and enter_named_scope(n) again from the same
\* parent, the current scope's record still contains b: the record of a
\* named scope is not reset on re-entry.
C1_ScopeReuseKeepsBindings ==
    [][ReentersNamedScope =>
          \A b \in DOMAIN vault[current_scope'].values :
              /\ b \in DOMAIN vault'[current_scope'].values
              /\ vault'[current_scope'].values[b] = vault[current_scope'].values[b]]_vars

\* C2: block cleanup.  When decrement_scope leaves a block, (1) every named
\* scope declared directly in that block (entered and exited there) is no
\* longer a vault key, and (2) a named scope registered as a child of
\* global.$0 is still a vault key unless the block's own named-children list
\* contains its path.
C2_BlockCleanup ==
    [][last_op' = "decrement_scope" =>
          /\ \A p \in Range(Last(frames).decls) : p \notin DOMAIN vault'
          /\ \A p \in Children(GlobalScope) \cap DOMAIN vault :
                p \notin Children(current_scope) => p \in DOMAIN vault']_vars

\* C2, the case: a block has just been left; one named child of global.$0,
\* re-declared in a block, is gone, and another one has survived
C2_Witness ==
    /\ last_op = "decrement_scope"
    /\ \E p, q \in Children(GlobalScope) : p \in DOMAIN vault /\ q \notin DOMAIN vault

\* C3 as claimed: two scopes that share a prefix and differ in their
\* numbered suffix (P.$i and P.$j) never produce the same path for a named
\* scope, so the named children they registered are disjoint.
C3_DistinctPathPerSuffix ==
    \A p, q \in DOMAIN vault :
        (p # q /\ PathPrefix(p) = PathPrefix(q)) => Children(p) \cap Children(q) = {}

\* C3, amended: the path enter_named_scope(name) produces from P.$i is
\* P.<name>.$0, without the numbered suffix of the parent: every named child
\* registered by P.$i is the path that the same name produces from any P.$j.
C3_SamePathWhateverSuffix ==
    \A q \in DOMAIN vault :
        LET P == PathPrefix(q)
            named == {P \o <<".">> \o name \o <<".", "$", "0">> : name \in ScopeNames}
        IN  \A p \in DOMAIN vault :
                PathPrefix(p) = P => Children(p) \subseteq named

\* C3, the case: the same name has been declared from P.$i and from P.$j,
\* and the scope just entered is a named child of both
C3_Witness ==
    /\ last_op = "enter_named_scope"
    /\ \E p, q \in DOMAIN vault :
          /\ p # q
          /\ PathPrefix(p) = PathPrefix(q)
          /\ current_scope \in Children(p) \cap Children(q)

\* C4: initialization.  After initialize() the stack is [std.$0, global.$0]
\* with global.$0 current, the vault's keys are {std.$0, global.$0}, every
\* native function is bound as a NativeFunction in std.$0, and global.$0 has
\* no bindings and no named children.
C4_Initialization ==
    last_op = "initialize" =>
        /\ scope_stack = <<StdScope, GlobalScope>>
        /\ current_scope = GlobalScope
        /\ DOMAIN vault = {StdScope, GlobalScope}
        /\ \A nf \in NativeFunctions :
              /\ nf[1] \in DOMAIN vault[StdScope].values
              /\ vault[StdScope].values[nf[1]] = NativeFunction(nf[2])
        /\ DOMAIN vault[GlobalScope].values = {}
        /\ vault[GlobalScope].named_scope_refs = <<>>

\* C4, the case: initialize() has just run
C4_Witness ==
    /\ last_op = "initialize"
    /\ Len(scope_stack) = 2
    /\ evaluated = 0

\* C18: decrement_scope removes from the vault exactly the current scope's
\* own record and the paths listed in its named-children list, and pops the
\* stack; every other vault entry is unchanged, so a named scope registered
\* inside one of those named children (a grandchild) is still a vault key.
C18_DecrementRemovesOwnAndChildren ==
    [][last_op' = "decrement_scope" =>
          /\ DOMAIN vault' = DOMAIN vault \ ({current_scope} \cup Children(current_scope))
          /\ \A p \in DOMAIN vault' : vault'[p] = vault[p]
          /\ scope_stack' = Pop(scope_stack)
          /\ \A p \in Children(current_scope) \cap DOMAIN vault :
                Children(p) \cap DOMAIN vault \subseteq
                    DOMAIN vault' \cup Children(current_scope) \cup {current_scope}]_vars

\* C18, the case: a block has just been left whose named child is gone and
\* whose grandchild is still a vault key
C18_Witness ==
    /\ last_op = "decrement_scope"
    /\ NamedScopePath(<<"g", "l", "o", "b", "a", "l">>, Foo) \notin DOMAIN vault
    /\ NamedScopePath(<<"g", "l", "o", "b", "a", "l", ".">> \o Foo, Bar) \in DOMAIN vault

\* C19: exit_named_scope pops the scope stack and makes the new top current,
\* and leaves the vault unchanged: the exited named scope's path is still a
\* vault key with the bindings and named children it had before the exit.
C19_ExitKeepsVault ==
    [][last_op' = "exit_named_scope" =>
          /\ scope_stack' = Pop(scope_stack)
          /\ current_scope' = Last(scope_stack')
          /\ vault' = vault
          /\ current_scope \in DOMAIN vault'
          /\ vault'[current_scope] = vault[current_scope]]_vars

\* C19, the case: a named scope holding a binding has just been left
C19_Witness ==
    /\ last_op = "exit_named_scope"
    /\ \E p \in DOMAIN vault :
          /\ p \notin Range(scope_stack)
          /\ DOMAIN vault[p].values # {}

\* C20: enter_named_scope(name) from the current scope P.$N makes P.<name>.$0
\* the current scope and the top of the stack, makes it a vault key, and
\* appends that path to the named-children list of P.$N; the stack below the
\* new top is unchanged.
C20_EnterNamedScope ==
    [][last_op' = "enter_named_scope" =>
          \E name \in ScopeNames :
              LET new_scope == PathPrefix(current_scope) \o <<".">> \o name
                                   \o <<".", "$", "0">>
              IN  /\ current_scope' = new_scope
                  /\ scope_stack' = Append(scope_stack, new_scope)
                  /\ new_scope \in DOMAIN vault'
                  /\ vault'[current_scope].named_scope_refs =
                         Append(vault[current_scope].named_scope_refs, new_scope)]_vars

\* C20, the case: a named scope has just been entered from a block, P.$1
C20_Witness ==
    /\ last_op = "enter_named_scope"
    /\ Len(scope_stack) = 4
    /\ scope_stack[3] = NumberedScopePath(<<"g", "l", "o", "b", "a", "l">>, 1)
    /\ current_scope \in Children(scope_stack[3])

\* C21: increment_scope from the current scope P.$N pushes P.$(N+1) and
\* makes it current; right after the call the vault record at P.$(N+1) has no
\* bindings and no named children, whatever the enclosing scopes hold, and
\* the record of every other path is what it was.
C21_IncrementCreatesEmptyScope ==
    [][last_op' = "increment_scope" =>
          \E n \in 0..MaxStatements :
              LET new_scope == NumberedScopePath(PathPrefix(current_scope), n + 1)
              IN  /\ current_scope = NumberedScopePath(PathPrefix(current_scope), n)
                  /\ scope_stack' = Append(scope_stack, new_scope)
                  /\ current_scope' = new_scope
                  /\ DOMAIN vault' = DOMAIN vault \cup {new_scope}
                  /\ DOMAIN vault'[new_scope].values = {}
                  /\ vault'[new_scope].named_scope_refs = <<>>
                  /\ \A p \in DOMAIN vault \ {new_scope} : vault'[p] = vault[p]]_vars

\* C21, the case: a block has just been entered from a scope that holds a
\* binding and a named child
C21_Witness ==
    /\ last_op = "increment_scope"
    /\ Len(scope_stack) >= 3
    /\ DOMAIN vault[scope_stack[Len(scope_stack) - 1]].values # {}
    /\ vault[scope_stack[Len(scope_stack) - 1]].named_scope_refs # <<>>
    /\ vault[current_scope] = NewScopeValue

\* C23: after initialize and any properly nested run of enter_named_scope /
\* exit_named_scope and increment_scope / decrement_scope, current_scope is
\* the top of the scope stack, the bottom two entries of the stack are std.$0
\* and global.$0, no path is on the stack twice, and every path on the stack
\* is a vault key.
C23_ScopeStackInvariant ==
    Running =>
        /\ Len(scope_stack) >= 2
        /\ current_scope = Last(scope_stack)
        /\ scope_stack[1] = StdScope
        /\ scope_stack[2] = GlobalScope
        /\ \A i, j \in 1..Len(scope_stack) : scope_stack[i] = scope_stack[j] => i = j
        /\ \A i \in 1..Len(scope_stack) : scope_stack[i] \in DOMAIN vault

\* C23, the case: a named scope nested in a block nested in a named scope
\* has just been left
C23_Witness ==
    /\ last_op = "exit_named_scope"
    /\ Len(scope_stack) = 4
    /\ Len(frames) = 2
    /\ frames[1].kind = "scope"
    /\ frames[2].kind = "block"
    /\ current_scope = Last(scope_stack)

\* C25: in every state reached by a properly nested run after initialize,
\* increment_scope immediately followed by decrement_scope gives back the
\* scope stack, the current scope and the whole vault, and
\* enter_named_scope(n) immediately followed by exit_named_scope gives back
\* the scope stack and the current scope.
C25_BalancedPairsRestore ==
    Running =>
        /\ LET after == decrement_scope(increment_scope(Self))
           IN  /\ ~after.panicked
               /\ after.scope_stack = scope_stack
               /\ after.current_scope = current_scope
               /\ after.vault = vault
        /\ \A name \in ScopeNames :
              LET after == exit_named_scope(enter_named_scope(Self, name))
              IN  /\ ~after.panicked
                  /\ after.scope_stack = scope_stack
                  /\ after.current_scope = current_scope
        /\ (last_op = "decrement_scope" /\ evaluated = 1) =>
              /\ scope_stack = initialize(NewInterpreter).scope_stack
              /\ current_scope = initialize(NewInterpreter).current_scope
              /\ vault = initialize(NewInterpreter).vault

\* C25, the case: inside a named scope that holds a binding, a block has
\* been entered and left at once, and the vault still holds the binding
C25_Witness ==
    /\ last_op = "decrement_scope"
    /\ Len(scope_stack) = 3
    /\ Len(frames) = 1
    /\ frames[1].kind = "scope"
    /\ evaluated = 3
    /\ DOMAIN vault[current_scope].values # {}
    /\ vault = decrement_scope(increment_scope(Self)).vault

-----------------------------------------------------------------------------
(* Lexer: characters.  The Chars iterator over the source is modelled by    *)
(* the number of characters it has yielded; the sources are ASCII, so this  *)
(* is also offset().                                                        *)

\* Option::None for a character
NoChar == ""

Letters ==
    {"a", "b", "c", "d", "e", "f", "g", "h", "i", "j", "k", "l", "m",
     "n", "o", "p", "q", "r", "s", "t", "u", "v", "w", "x", "y", "z",
     "A", "B", "C", "D", "E", "F", "G", "H", "I", "J", "K", "L", "M",
     "N", "O", "P", "Q", "R", "S", "T", "U", "V", "W", "X", "Y", "Z", "_"}

\* the grave accent, the third quote character (the module's own syntax
\* cannot hold it inside a string)
Backtick == "<grave>"

IsIdentStart(c) == c \in Letters

IsIdentPart(c) == c \in Letters \/ IsDigit(c)

IsTrivia(c) == c \in {" ", "\t", "\n", "\r"}

\* self.chars.as_str(): the characters not yet yielded
Remaining(src, pos) == SubSeq(src, pos + 1, Len(src))

\* chars().next() of a fresh iterator over text
FirstChar(text) == IF text = <<>> THEN NoChar ELSE text[1]

\* self.next(): the position after one more character, if there is one
Bump(src, pos) == IF pos < Len(src) THEN pos + 1 ELSE pos

peek(src, pos) == FirstChar(Remaining(src, pos))

\* peek_two: each new_chars.chars() is a fresh iterator, so the second
\* next() yields the first remaining character again
peek_two(src, pos) ==
    LET new_chars == Remaining(src, pos)
        first == FirstChar(new_chars)
    IN  FirstChar(new_chars)

-----------------------------------------------------------------------------
(* Lexer: the scanners.  Each returns the token kind and the position       *)
(* reached.  Kinds are named as in the TokenKind enum of the types crate    *)
(* (Multiply, Divide, Str for the lexer's Star, Slash, String).             *)

Scanned(kind, pos) == [kind |-> kind, pos |-> pos]

read_one_more(src, pos, ch, kind_expected, kind_unexpected) ==
    IF peek(src, pos) = ch THEN Scanned(kind_expected, Bump(src, pos))
    ELSE Scanned(kind_unexpected, pos)

RECURSIVE read_number(_, _)
read_number(src, pos) ==
    LET c == peek(src, pos)
    IN  IF IsDigit(c) THEN read_number(src, Bump(src, pos))
        ELSE IF c \in {".", "e", "E"}
             THEN IF IsDigit(peek_two(src, pos))
                  THEN read_number(src, Bump(src, Bump(src, pos)))
                  ELSE Scanned("Number", pos)
        ELSE Scanned("Number", pos)

\* read_dot giving back the '.' that next_kind consumed
read_dot_Unread(src, pos) == Scanned("Dot", pos - 1)

\* read_dot without the test for a second '.'
read_dot_NoRange(src, pos) ==
    IF IsDigit(peek(src, pos)) THEN read_number(src, pos)
    ELSE Scanned("Dot", pos)

read_dot(src, pos) ==
    IF peek(src, pos) = "." THEN Scanned("Range", Bump(src, pos))
    ELSE IF IsDigit(peek(src, pos)) THEN read_number(src, pos)
    ELSE Scanned("Dot", pos)

RECURSIVE read_comment(_, _)
read_comment(src, pos) ==
    LET c == peek(src, pos)
    IN  IF c = NoChar THEN Scanned("Comment", pos)
        ELSE IF c = "\n" THEN Scanned("Comment", Bump(src, pos))
        ELSE read_comment(src, Bump(src, pos))

\* read_string ended by any of the three quote characters
RECURSIVE read_string_AnyQuote(_, _, _)
read_string_AnyQuote(src, pos, init_char) ==
    LET c == peek(src, pos)
    IN  IF c = NoChar THEN Scanned("Unexpected", pos)
        ELSE IF c \in {"\"", "'", Backtick} THEN Scanned("Str", Bump(src, pos))
        ELSE IF c = "\\" THEN read_string_AnyQuote(src, Bump(src, Bump(src, pos)), init_char)
        ELSE read_string_AnyQuote(src, Bump(src, pos), init_char)

RECURSIVE read_string(_, _, _)
read_string(src, pos, init_char) ==
    LET c == peek(src, pos)
    IN  IF c = NoChar THEN Scanned("Unexpected", pos)
        ELSE IF c = init_char THEN Scanned("Str", Bump(src, pos))
        ELSE IF c = "\\" THEN read_string(src, Bump(src, Bump(src, pos)), init_char)
        ELSE read_string(src, Bump(src, pos), init_char)

RECURSIVE read_identifier(_, _)
read_identifier(src, pos) ==
    IF IsIdentPart(peek(src, pos)) THEN read_identifier(src, Bump(src, pos))
    ELSE Scanned("Identifier", pos)

\* skip_trivia skipping '.' as well
RECURSIVE skip_trivia_AndDots(_, _)
skip_trivia_AndDots(src, pos) ==
    IF IsTrivia(peek(src, pos)) \/ peek(src, pos) = "."
    THEN skip_trivia_AndDots(src, Bump(src, pos))
    ELSE pos

RECURSIVE skip_trivia(_, _)
skip_trivia(src, pos) ==
    IF IsTrivia(peek(src, pos)) THEN skip_trivia(src, Bump(src, pos)) ELSE pos

next_kind(src, pos) ==
    LET c == peek(src, pos)
        p == Bump(src, pos)
    IN  CASE c = NoChar -> Scanned("Eof", pos)
          [] c = "+" -> read_one_more(src, p, "=", "PlusAssign", "Plus")
          [] c = "-" -> read_one_more(src, p, "=", "MinusAssign", "Minus")
          [] c = "*" -> read_one_more(src, p, "=", "MultiplyAssign", "Multiply")
          [] c = "/" -> read_one_more(src, p, "=", "DivideAssign", "Divide")
          [] c = "^" -> read_one_more(src, p, "=", "PowerAssign", "Power")
          [] c = "%" -> read_one_more(src, p, "=", "ModuloAssign", "Modulo")
          [] c = "<" -> read_one_more(src, p, "=", "LessEqual", "Less")
          [] c = ">" -> read_one_more(src, p, "=", "GreaterEqual", "Greater")
          [] c = "!" -> read_one_more(src, p, "=", "NotEqual", "Not")
          [] c = "(" -> Scanned("LParen", p)
          [] c = ")" -> Scanned("RParen", p)
          [] c = "{" -> Scanned("LBrace", p)
          [] c = "}" -> Scanned("RBrace", p)
          [] c = "[" -> Scanned("LBracket", p)
          [] c = "]" -> Scanned("RBracket", p)
          [] c = ";" -> Scanned("Semicolon", p)
          [] c = "," -> Scanned("Comma", p)
          [] c = ":" -> read_one_more(src, p, "=", "FormulaAssign", "Colon")
          [] c = "." -> read_dot(src, p)
          [] c = "=" -> read_one_more(src, p, "=", "Equal", "Assign")
          [] IsDigit(c) -> read_number(src, p)
          [] IsIdentStart(c) -> read_identifier(src, p)
          [] c \in {"\"", "'", Backtick} -> read_string(src, p, c)
          [] c = "#" -> read_comment(src, p)
          [] OTHER -> Scanned("Unexpected", p)

-----------------------------------------------------------------------------
(* Lexer: tokens *)

\* the table of match_keyword
Keywords ==
    {<<<<"i", "f">>, "If">>,
     <<<<"e", "l", "s", "e">>, "Else">>,
     <<<<"w", "h", "i", "l", "e">>, "While">>,
     <<<<"l", "o", "o", "p">>, "Loop">>,
     <<<<"f", "o", "r">>, "For">>,
     <<<<"l", "e", "t">>, "Let">>,
     <<<<"f", "n">>, "Function">>,
     <<<<"r", "e", "t", "u", "r", "n">>, "Return">>,
     <<<<"b", "r", "e", "a", "k">>, "Break">>,
     <<<<"c", "o", "n", "t", "i", "n", "u", "e">>, "Continue">>,
     <<<<"i", "n">>, "In">>,
     <<<<"t", "r", "u", "e">>, "True">>,
     <<<<"f", "a", "l", "s", "e">>, "False">>}

match_keyword(ident) ==
    IF Len(ident) = 1 \/ Len(ident) > 10 THEN "Identifier"
    ELSE IF \E k \in Keywords : k[1] = ident
         THEN (CHOOSE k \in Keywords : k[1] = ident)[2]
         ELSE "Identifier"

\* str::trim
RECURSIVE TrimStart(_)
TrimStart(text) ==
    IF text # <<>> /\ IsTrivia(Head(text)) THEN TrimStart(Tail(text)) ELSE text

RECURSIVE TrimEnd(_)
TrimEnd(text) ==
    IF text # <<>> /\ IsTrivia(Last(text)) THEN TrimEnd(Pop(text)) ELSE text

Trim(text) == TrimEnd(TrimStart(text))

\* the first index of text holding a character of set, or 0
RECURSIVE FindChar(_, _, _)
FindChar(text, set, i) ==
    IF i > Len(text) THEN 0
    ELSE IF text[i] \in set THEN i
    ELSE FindChar(text, set, i + 1)

AllDigits(text) == \A i \in 1..Len(text) : IsDigit(text[i])

\* a decimal number m * 10^e, with m not a multiple of 10 (or m = e = 0)
RECURSIVE Decimal(_, _)
Decimal(m, e) ==
    IF m = 0 THEN [m |-> 0, e |-> 0]
    ELSE IF m % 10 = 0 THEN Decimal(m \div 10, e + 1)
    ELSE [m |-> m, e |-> e]

\* str::parse::<f64>().unwrap_or_default() of an unsigned literal:
\* digits [. digits] [(e|E) digits] with a digit in the mantissa, as the
\* decimal it denotes (the rounding to a double is left out); 0.0 otherwise
ParseF64OrDefault(text) ==
    LET ePos == FindChar(text, {"e", "E"}, 1)
        mant == IF ePos = 0 THEN text ELSE SubSeq(text, 1, ePos - 1)
        expo == IF ePos = 0 THEN <<>> ELSE SubSeq(text, ePos + 1, Len(text))
        dot == FindChar(mant, {"."}, 1)
        int == IF dot = 0 THEN mant ELSE SubSeq(mant, 1, dot - 1)
        frac == IF dot = 0 THEN <<>> ELSE SubSeq(mant, dot + 1, Len(mant))
        ok == /\ AllDigits(int) /\ AllDigits(frac) /\ AllDigits(expo)
              /\ Len(int) + Len(frac) > 0
              /\ ePos # 0 => expo # <<>>
    IN  IF ok THEN Decimal(ParseDigits(int \o frac, 0), ParseDigits(expo, 0) - Len(frac))
        ELSE Decimal(0, 0)

\* TokenValue
ValueNone == [tag |-> "None"]
ValueNumber(x) == [tag |-> "Number", number |-> x]
ValueStr(text) == [tag |-> "Str", text |-> text]

Token(kind, start, end, value) ==
    [kind |-> kind, start |-> start, end |-> end, value |-> value]

\* next_token: the token, the position reached, and whether report_error
\* was called (an Unexpected token), which ends the process
next_token(src, pos) ==
    LET start == skip_trivia(src, pos)
        scanned == next_kind(src, start)
        end == scanned.pos
        s == Trim(SubSeq(src, start + 1, end))
        kind == IF scanned.kind = "Identifier" THEN match_keyword(s) ELSE scanned.kind
        value ==
            CASE scanned.kind = "Number" -> ValueNumber(ParseF64OrDefault(Trim(s)))
              [] scanned.kind = "Identifier" ->
                    IF kind \in {"If", "While", "For"} THEN ValueNone ELSE ValueStr(s)
              [] scanned.kind = "Str" -> ValueStr(SubSeq(s, 2, Len(s) - 1))
              [] scanned.kind = "Comment" -> ValueStr(SubSeq(s, 2, Len(s)))
              [] OTHER -> ValueNone
    IN  [token |-> Token(kind, start, end, value),
         pos |-> end,
         reported |-> scanned.kind = "Unexpected"]

-----------------------------------------------------------------------------
(* Parser: state.  The methods of Parser are functions of the parser state  *)
(* ps = [src, lexer, chars, cur, failed, diag]: the source, the parser's    *)
(* lexer over it (what its next_token returns at each position) and the     *)
(* position it has reached, cur_token, and the diagnostic of the report     *)
(* that ended the process.  Once failed, a parser state no longer changes:  *)
(* every method applied to it returns at once (the process is gone), and    *)
(* its cur_token is a token of kind "Halted" that no rule accepts.          *)

\* Token::default(): the token parse() eats first
DefaultToken == Token("Start", 0, 0, ValueNone)

HaltedToken == Token("Halted", 0, 0, ValueNone)

NoDiag == [message |-> "none"]

\* the lexer over src: what its next_token returns at each position
ScanTable(src) == [pos \in 0..Len(src) |-> next_token(src, pos)]

\* Parser::new
NewParser(src) ==
    [src |-> src,
     lexer |-> ScanTable(src),
     chars |-> 0, cur |-> DefaultToken, failed |-> FALSE, diag |-> NoDiag]

\* report_error(path, source, message, start, end)
Report(ps, diag) ==
    IF ps.failed THEN ps
    ELSE [ps EXCEPT !.failed = TRUE, !.diag = diag, !.cur = HaltedToken]

\* impl Display for TokenKind
KindDisplay(kind) ==
    CASE kind = "Eof" -> "EOF"
      [] kind = "Semicolon" -> ";"
      [] kind = "Comma" -> ","
      [] kind = "Colon" -> ":"
      [] kind = "Dot" -> "."
      [] kind = "Plus" -> "+"
      [] kind = "Minus" -> "-"
      [] kind = "Multiply" -> "*"
      [] kind = "Divide" -> "/"
      [] kind = "Power" -> "^"
      [] kind = "Range" -> ".."
      [] kind = "Modulo" -> "%"
      [] kind = "Not" -> "! or not"
      [] kind = "Assign" -> "="
      [] kind = "FormulaAssign" -> ":="
      [] kind = "PlusAssign" -> "+="
      [] kind = "MinusAssign" -> "-="
      [] kind = "MultiplyAssign" -> "*="
      [] kind = "DivideAssign" -> "/="
      [] kind = "PowerAssign" -> "^="
      [] kind = "ModuloAssign" -> "%="
      [] kind = "Equal" -> "=="
      [] kind = "NotEqual" -> "!="
      [] kind = "Less" -> "<"
      [] kind = "LessEqual" -> "<="
      [] kind = "Greater" -> ">"
      [] kind = "GreaterEqual" -> ">="
      [] kind = "LParen" -> "("
      [] kind = "RParen" -> ")"
      [] kind = "LBrace" -> "{"
      [] kind = "RBrace" -> "}"
      [] kind = "LBracket" -> "["
      [] kind = "RBracket" -> "]"
      [] kind = "Str" -> "String"
      [] kind = "True" -> "true"
      [] kind = "False" -> "false"
      [] kind = "If" -> "if"
      [] kind = "Else" -> "else"
      [] kind = "While" -> "while"
      [] kind = "For" -> "for"
      [] kind = "Loop" -> "loop"
      [] kind = "Let" -> "let"
      [] kind = "Return" -> "return"
      [] kind = "Break" -> "break"
      [] kind = "Continue" -> "continue"
      [] kind = "Function" -> "function"
      [] kind = "In" -> "in"
      [] OTHER -> kind

\* report_expected with the diagnostic anchored at the start of the source
report_expected_AtSourceStart(ps, start, expected, got_kind, got_value) ==
    Report(ps, [message |-> "Expected", expected |-> expected,
                got |-> KindDisplay(got_kind), got_value |-> got_value,
                start |-> 0, end |-> ps.cur.end])

\* report_expected: "Expected {expected} but got {got}", from start to the
\* end of cur_token; got is the kind found and the value printed after it
report_expected(ps, start, expected, got_kind, got_value) ==
    Report(ps, [message |-> "Expected", expected |-> expected,
                got |-> KindDisplay(got_kind), got_value |-> got_value,
                start |-> start, end |-> ps.cur.end])

cur_kind(ps) == ps.cur.kind

at(ps, kind) == cur_kind(ps) = kind

\* advance: cur_token = lexer.next_token(); an Unexpected token makes the
\* lexer report "Unexpected token", which ends the process
advance(ps) ==
    IF ps.failed THEN ps
    ELSE LET r == ps.lexer[ps.chars]
         IN  IF r.reported
             THEN Report(ps, [message |-> "Unexpected token",
                              start |-> r.token.start, end |-> r.token.end])
             ELSE [ps EXCEPT !.chars = r.pos, !.cur = r.token]

eat_with_start(ps, kind, start) ==
    IF ps.failed THEN ps
    ELSE IF at(ps, kind) THEN advance(ps)
    ELSE report_expected(ps, start, KindDisplay(kind), cur_kind(ps), ps.cur.value)

eat(ps, kind) == eat_with_start(ps, kind, ps.cur.start)

\* what a parsing method returns: the parser state after it, and its value
Parsed(ps, node) == [ps |-> ps, node |-> node]

-----------------------------------------------------------------------------
(* Parser: expression builders *)

\* the kinds kind_to_op maps to an Operator; any other is unreachable!()
OperatorKinds ==
    {"Plus", "Minus", "Multiply", "Divide", "Power", "Range", "Modulo",
     "And", "Or", "Xor", "BitAnd", "BitOr", "BitXor", "BitLeftShift",
     "BitRightShift", "Assign", "FormulaAssign", "PlusAssign", "MinusAssign",
     "MultiplyAssign", "DivideAssign", "PowerAssign", "ModuloAssign", "Equal",
     "NotEqual", "Less", "LessEqual", "Greater", "GreaterEqual"}

\* kind_to_op's panic
Unreachable(ps) == Report(ps, [message |-> "unreachable"])

ExpressionNone == [type |-> "None"]

Literal(token) == [type |-> "Literal", token |-> token]

Identifier(token) == [type |-> "Identifier", token |-> token]

call_expression(ps, start, callee, arguments) ==
    [type |-> "CallExpression", start |-> start, end |-> ps.cur.end,
     callee |-> callee, arguments |-> arguments]

member_expression(ps, start, object, property, is_expr) ==
    [type |-> "MemberExpression", start |-> start, end |-> ps.cur.end,
     object |-> object, property |-> property, is_expr |-> is_expr]

sequence_expression(ps, start, expressions) ==
    [type |-> "SequenceExpression", start |-> start, end |-> ps.cur.end,
     expressions |-> expressions]

conditional_expression(ps, start, test, consequent, alternate) ==
    [type |-> "ConditionalExpression", start |-> start, end |-> ps.cur.end,
     test |-> test, consequent |-> consequent, alternate |-> alternate]

binary_expression(ps, start, left, right, operator) ==
    IF operator \in OperatorKinds
    THEN Parsed(ps, [type |-> "BinaryExpression", start |-> start,
                     end |-> ps.cur.end, left |-> left, operator |-> operator,
                     right |-> right])
    ELSE Parsed(Unreachable(ps), ExpressionNone)

unary_expression(ps, start, operator, right) ==
    IF operator \in OperatorKinds
    THEN Parsed(ps, [type |-> "UnaryExpression", start |-> start,
                     end |-> ps.cur.end, operator |-> operator, right |-> right])
    ELSE Parsed(Unreachable(ps), ExpressionNone)

-----------------------------------------------------------------------------
(* Parser: expressions.  One method per precedence tier; each returns       *)
(* Parsed(ps, node).  The methods call each other recursively; in the model *)
(* a call that can close a cycle of calls is written Method(name, ps, arg), *)
(* self.name(arg) on the parser state ps, the one recursive operator of the *)
(* grammar, defined after the methods it calls.                             *)
(*                                                                          *)
(* The rules from comma down to power each start by calling the rule below  *)
(* them on the same parser state: comma calls assign, assign calls ternary, *)
(* ..., term calls power, power calls factor.  Only then does a rule look   *)
(* at cur_kind() and run the rest of its body.  The model runs that chain   *)
(* of calls from its far end (Rule, RuleChain): factor first, then the rest *)
(* of power on factor's node, the rest of term on power's node, and so on   *)
(* up to the rule asked for, each with the start offset the rule took from  *)
(* the common parser state.                                                 *)

RECURSIVE Method(_, _, _)

expr(ps) == Method("comma", ps, FALSE)

comma(ps, only_sequence) == Method("comma", ps, only_sequence)

assign(ps) == Method("assign", ps, FALSE)

ternary(ps) == Method("ternary", ps, FALSE)

range(ps) == Method("range", ps, FALSE)

logical_or(ps) == Method("logical_or", ps, FALSE)

logical_and(ps) == Method("logical_and", ps, FALSE)

cmp(ps) == Method("cmp", ps, FALSE)

bit_or(ps) == Method("bit_or", ps, FALSE)

bit_xor(ps) == Method("bit_xor", ps, FALSE)

bit_and(ps) == Method("bit_and", ps, FALSE)

shift(ps) == Method("shift", ps, FALSE)

add_sub(ps) == Method("add_sub", ps, FALSE)

term(ps) == Method("term", ps, FALSE)

power(ps) == Method("power", ps, FALSE)

\* the while loop of comma
RECURSIVE comma_loop(_, _)
comma_loop(ps, nodes) ==
    IF cur_kind(ps) = "Comma"
    THEN LET next == assign(advance(ps))
         IN  comma_loop(next.ps, Append(nodes, next.node))
    ELSE Parsed(ps, nodes)

\* comma after its first self.assign()
comma_rest(start, first, only_sequence) ==
    LET all == comma_loop(first.ps, <<first.node>>)
    IN  IF ~only_sequence /\ Len(all.node) = 1
        THEN Parsed(all.ps, all.node[1])
        ELSE Parsed(all.ps, sequence_expression(all.ps, start, all.node))

AssignKinds ==
    {"Assign", "FormulaAssign", "PlusAssign", "MinusAssign", "MultiplyAssign",
     "DivideAssign", "PowerAssign", "ModuloAssign"}

\* binary_right_associative!(self, ternary, [kinds]) after its first
\* self.ternary(): the right operand is the rule itself
assign_rest(start, left) ==
    IF cur_kind(left.ps) \in AssignKinds
    THEN LET right == assign(advance(left.ps))
         IN  binary_expression(right.ps, start, left.node, right.node,
                               cur_kind(left.ps))
    ELSE left

\* the while loop of ternary
RECURSIVE ternary_loop(_, _, _)
ternary_loop(ps, start, node) ==
    IF cur_kind(ps) = "Question"
    THEN LET consequent == range(advance(ps))
             alternate == expr(eat(consequent.ps, "Colon"))
         IN  ternary_loop(alternate.ps, start,
                          conditional_expression(alternate.ps, start, node,
                                                 consequent.node, alternate.node))
    ELSE Parsed(ps, node)

\* the tiers built by binary_left_associative!(self, [kinds], sub): the
\* operators of each rule and the rule of its operands
BinaryRules ==
    [range |-> [kinds |-> {"Range"}, sub |-> "logical_or"],
     logical_or |-> [kinds |-> {"Or"}, sub |-> "logical_and"],
     logical_and |-> [kinds |-> {"And"}, sub |-> "cmp"],
     cmp |-> [kinds |-> {"Less", "LessEqual", "Greater", "GreaterEqual",
                         "Equal", "NotEqual"},
              sub |-> "bit_or"],
     bit_or |-> [kinds |-> {"BitOr"}, sub |-> "bit_xor"],
     bit_xor |-> [kinds |-> {"BitXor"}, sub |-> "bit_and"],
     bit_and |-> [kinds |-> {"BitAnd"}, sub |-> "shift"],
     shift |-> [kinds |-> {"BitRightShift", "BitLeftShift"}, sub |-> "add_sub"],
     add_sub |-> [kinds |-> {"Plus", "Minus"}, sub |-> "term"],
     power |-> [kinds |-> {"Power"}, sub |-> "factor"]]

\* $self.$SubOp() of the macro
SubOp(name, ps) == Method(name, ps, FALSE)

\* the macro with the right operand parsed by the rule itself: a chain
\* a op b op c nests to the right
binary_left_associative_loop_RightNested(rule, ps, start, node) ==
    IF cur_kind(ps) \in BinaryRules[rule].kinds
    THEN LET current_token == ps.cur
             right == SubOp(rule, eat(ps, current_token.kind))
         IN  binary_expression(right.ps, start, node, right.node, current_token.kind)
    ELSE Parsed(ps, node)

\* binary_left_associative!(self, [kinds], sub), the first arm of parser!,
\* after its first $self.$SubOp(): the while loop
RECURSIVE binary_left_associative_loop(_, _, _, _)
binary_left_associative_loop(rule, ps, start, node) ==
    IF cur_kind(ps) \in BinaryRules[rule].kinds
    THEN LET current_token == ps.cur
             right == SubOp(BinaryRules[rule].sub, eat(ps, current_token.kind))
             built == binary_expression(right.ps, start, node, right.node,
                                        current_token.kind)
         IN  binary_left_associative_loop(rule, built.ps, start, built.node)
    ELSE Parsed(ps, node)

\* term without its first loop: juxtaposed operands are left alone
term_implicit_loop_None(ps, start, node) == Parsed(ps, node)

\* the first while loop of term: juxtaposed operands
RECURSIVE term_implicit_loop(_, _, _)
term_implicit_loop(ps, start, node) ==
    IF cur_kind(ps) \in {"Identifier", "LParen", "Number"}
    THEN LET right == power(ps)
             built == binary_expression(right.ps, start, node, right.node, "Multiply")
         IN  term_implicit_loop(built.ps, start, built.node)
    ELSE Parsed(ps, node)

\* the second loop of term taking + and - as well: no precedence between the
\* additive and the multiplicative operators
RECURSIVE term_explicit_loop_WithAdditive(_, _, _)
term_explicit_loop_WithAdditive(ps, start, node) ==
    IF cur_kind(ps) \in {"Multiply", "Divide", "Modulo", "Plus", "Minus"}
    THEN LET right == power(advance(ps))
             built == binary_expression(right.ps, start, node, right.node,
                                        cur_kind(ps))
         IN  term_explicit_loop_WithAdditive(built.ps, start, built.node)
    ELSE Parsed(ps, node)

\* the second while loop of term: explicit operators
RECURSIVE term_explicit_loop(_, _, _)
term_explicit_loop(ps, start, node) ==
    IF cur_kind(ps) \in {"Multiply", "Divide", "Modulo"}
    THEN LET right == power(advance(ps))
             built == binary_expression(right.ps, start, node, right.node,
                                        cur_kind(ps))
         IN  term_explicit_loop(built.ps, start, built.node)
    ELSE Parsed(ps, node)

\* term after its first self.power()
term_rest(start, first) ==
    LET implicit == term_implicit_loop(first.ps, start, first.node)
    IN  term_explicit_loop(implicit.ps, start, implicit.node)

\* call returns (Expression, bool): Parsed with the flag is_expr
call(ps) ==
    LET token == ps.cur
        Result(p, node, is_expr) == [ps |-> p, node |-> node, is_expr |-> is_expr]
    IN  CASE cur_kind(ps) = "Identifier" ->
               LET named == advance(ps)
               IN  IF cur_kind(named) = "LBracket"
                   THEN LET sequence_start == named.cur.start
                            opened == advance(named)
                        IN  IF cur_kind(opened) = "RBracket"
                            THEN LET closed == advance(opened)
                                     node == sequence_expression(closed, sequence_start, <<>>)
                                 IN  Result(closed,
                                            call_expression(closed, sequence_start,
                                                            Identifier(token), node),
                                            TRUE)
                            ELSE LET inner == expr(opened)
                                     closed == eat_with_start(inner.ps, "RBracket",
                                                              token.start)
                                     node == IF inner.node.type = "SequenceExpression"
                                             THEN sequence_expression(
                                                      closed, sequence_start,
                                                      inner.node.expressions)
                                             ELSE sequence_expression(
                                                      closed, sequence_start,
                                                      <<inner.node>>)
                                 IN  Result(closed,
                                            call_expression(closed, token.start,
                                                            Identifier(token), node),
                                            TRUE)
                   ELSE Result(named, Identifier(token), FALSE)
          [] cur_kind(ps) = "LBracket" ->
               LET node == expr(advance(ps))
               IN  Result(eat_with_start(node.ps, "RBracket", token.start),
                          node.node, TRUE)
          [] OTHER ->
               Result(report_expected(ps, token.start, "Identifier or [",
                                      cur_kind(ps), ValueNone),
                      ExpressionNone, FALSE)

\* the loop of member_left_associative!(self, [Dot], call)
RECURSIVE dot_loop(_, _, _)
dot_loop(ps, start, node) ==
    IF cur_kind(ps) \in {"Dot"}
    THEN LET property == call(advance(ps))
         IN  dot_loop(property.ps, start,
                      member_expression(property.ps, start, node, property.node,
                                        property.is_expr))
    ELSE Parsed(ps, node)

dot(ps) ==
    LET object == call(ps)
    IN  dot_loop(object.ps, ps.cur.start, object.node)

\* word_right_associative_expr!(self, kind, sub, rule): the word and then the
\* rule itself, else the next tier; otherwise is $self.$sub() applied to ps
word_right_associative_expr(ps, kind, rule, otherwise) ==
    IF cur_kind(ps) = kind
    THEN LET argument == Method(rule, advance(ps), FALSE)
         IN  Parsed(argument.ps, [type |-> "WordExpression", start |-> ps.cur.start,
                                  end |-> argument.ps.cur.end, kind |-> kind,
                                  argument |-> argument.node])
    ELSE otherwise

new_expr(ps) == word_right_associative_expr(ps, "New", "new_expr", dot(ps))

delete_expr(ps) == word_right_associative_expr(ps, "Delete", "delete_expr", new_expr(ps))

await_expr(ps) == word_right_associative_expr(ps, "Await", "await_expr", delete_expr(ps))

read_seq_expr(ps, token) ==
    LET opened == advance(ps)
    IN  IF cur_kind(opened) = "RBracket"
        THEN LET closed == advance(opened)
             IN  Parsed(closed, sequence_expression(closed, token.start, <<>>))
        ELSE LET node == comma(opened, TRUE)
                 closed == eat_with_start(node.ps, "RBracket", token.start)
             IN  IF node.node.type = "SequenceExpression"
                 THEN Parsed(closed, sequence_expression(closed, token.start,
                                                         node.node.expressions))
                 ELSE Parsed(closed, sequence_expression(closed, token.start,
                                                         <<node.node>>))

factor(ps) ==
    LET token == ps.cur
    IN  CASE token.kind \in {"Number", "Str", "True", "False"} ->
               Parsed(advance(ps), Literal(token))
          [] token.kind = "LParen" ->
               LET node == expr(advance(ps))
               IN  Parsed(eat_with_start(node.ps, "RParen", token.start), node.node)
          [] token.kind = "LBracket" -> read_seq_expr(ps, token)
          [] token.kind \in {"Not", "PlusPlus", "MinusMinus", "BitNot", "Minus", "Plus"} ->
               LET right == Method("factor", advance(ps), FALSE)
               IN  unary_expression(right.ps, token.start, token.kind, right.node)
          [] OTHER -> await_expr(ps)

\* the rules that start with the rule below them, from the innermost
RuleOrder ==
    <<"power", "term", "add_sub", "shift", "bit_and", "bit_xor", "bit_or", "cmp",
      "logical_and", "logical_or", "range", "ternary", "assign", "comma">>

RuleIndex(rule) == CHOOSE i \in 1..Len(RuleOrder) : RuleOrder[i] = rule

\* the body of a rule after the call of the rule below it returned first
RuleRest(rule, start, first, only_sequence) ==
    CASE rule = "comma" -> comma_rest(start, first, only_sequence)
      [] rule = "assign" -> assign_rest(start, first)
      [] rule = "ternary" -> ternary_loop(first.ps, start, first.node)
      [] rule = "term" -> term_rest(start, first)
      [] OTHER -> binary_left_associative_loop(rule, first.ps, start, first.node)

\* the rules RuleOrder[i..top] in turn, each on the node of the rule below;
\* a report ends the process, and with it the chain
RECURSIVE RuleChain(_, _, _, _, _)
RuleChain(i, top, start, first, only_sequence) ==
    LET built == RuleRest(RuleOrder[i], start, first, only_sequence)
    IN  IF built.ps.failed \/ i = top
        THEN built
        ELSE RuleChain(i + 1, top, start, built, only_sequence)

\* the rule from its start: factor, then the rest of each rule up to it
Rule(rule, ps, only_sequence) ==
    LET first == factor(ps)
    IN  RuleChain(1, RuleIndex(rule), ps.cur.start, first, only_sequence)

-----------------------------------------------------------------------------
(* Parser: statements.  A statement node keeps the start offset its rule    *)
(* passes to the builder, and the fields the rule collects.                 *)

var_decl(ps, only_with_init) ==
    LET start == ps.cur.start
        named == advance(ps)
        id == named.cur
        after_id == eat(named, "Identifier")
        init_start == after_id.cur.start
        init == CASE cur_kind(after_id) \in {"Assign", "FormulaAssign"} ->
                       expr(advance(after_id))
                  [] cur_kind(after_id) \notin {"Assign", "FormulaAssign"}
                     /\ ~only_with_init ->
                       Parsed(after_id, ExpressionNone)
                  [] OTHER ->
                       Parsed(report_expected(after_id, init_start,
                                              "Assign or FormulaAssign",
                                              cur_kind(after_id), ValueNone),
                              ExpressionNone)
        is_formula == cur_kind(after_id) = "FormulaAssign"
    IN  Parsed(eat(init.ps, "Semicolon"),
               [type |-> "VariableDeclaration", start |-> start, id |-> id,
                init |-> init.node, is_formula |-> is_formula])

expr_stmt(ps) ==
    LET expression == expr(ps)
    IN  Parsed(eat(expression.ps, "Semicolon"),
               [type |-> "ExpressionStatement", expression |-> expression.node])

\* word_stmt!(self, kind, Statement): the word, its argument, the semicolon
word_stmt(ps, kind, type) ==
    LET start == ps.cur.start
        argument == expr(eat(ps, kind))
    IN  Parsed(eat(argument.ps, "Semicolon"),
               [type |-> type, start |-> start, argument |-> argument.node])

return_stmt(ps) == word_stmt(ps, "Return", "ReturnStatement")

continue_stmt(ps) ==
    LET start == ps.cur.start
        after == eat(ps, "Continue")
    IN  Parsed(after, [type |-> "ContinueStatement", start |-> start,
                       end |-> after.cur.end])

break_stmt(ps) ==
    LET start == ps.cur.start
        after == eat(ps, "Break")
    IN  Parsed(after, [type |-> "BreakStatement", start |-> start,
                       end |-> after.cur.end])

\* the while loop of parse_params
RECURSIVE parse_params_loop(_, _)
parse_params_loop(ps, params) ==
    IF cur_kind(ps) = "Comma"
    THEN LET next == advance(ps)
         IN  parse_params_loop(eat(next, "Identifier"), Append(params, next.cur))
    ELSE Parsed(ps, params)

parse_params(ps) ==
    IF cur_kind(ps) = "RBracket" THEN Parsed(advance(ps), <<>>)
    ELSE parse_params_loop(eat(ps, "Identifier"), <<ps.cur>>)

\* the loop of body: it ends at Eof and at RBrace (and when the process has
\* ended)
RECURSIVE body_loop(_, _)
body_loop(ps, statements) ==
    IF ps.failed \/ cur_kind(ps) \in {"Eof", "RBrace"}
    THEN Parsed(ps, statements)
    ELSE LET next == Method("statement", ps, FALSE)
         IN  body_loop(next.ps, Append(statements, next.node))

body(ps) == body_loop(ps, <<>>)

block_stmt(ps) ==
    IF cur_kind(ps) = "LBrace"
    THEN LET start == ps.cur.start
             consequent == body(eat(ps, "LBrace"))
         IN  Parsed(eat_with_start(consequent.ps, "RBrace", start), consequent.node)
    ELSE LET single == Method("statement", ps, FALSE)
         IN  Parsed(single.ps, <<single.node>>)

loop_stmt(ps) ==
    LET start == ps.cur.start
        block == block_stmt(eat(ps, "Loop"))
    IN  Parsed(block.ps, [type |-> "LoopStatement", start |-> start,
                          body |-> block.node])

while_stmt(ps) ==
    LET start == ps.cur.start
        after_word == eat(ps, "While")
        test_start == after_word.cur.start
        test == expr(eat(after_word, "LParen"))
        block == block_stmt(eat_with_start(test.ps, "RParen", test_start))
    IN  Parsed(block.ps, [type |-> "WhileStatement", start |-> start,
                          test |-> test.node, body |-> block.node])

for_stmt(ps) ==
    LET start == ps.cur.start
        init == var_decl(eat(eat(ps, "For"), "LParen"), TRUE)
        test_start == init.ps.cur.start
        test == expr(init.ps)
        after_test == eat_with_start(test.ps, "Semicolon", test_start)
        update_start == after_test.cur.start
        update == expr(after_test)
        block == block_stmt(eat_with_start(update.ps, "RParen", update_start))
    IN  Parsed(block.ps, [type |-> "ForStatement", start |-> start,
                          init |-> init.node, test |-> test.node,
                          update |-> update.node, body |-> block.node])

if_stmt(ps) ==
    LET start == ps.cur.start
        after_word == eat(ps, "If")
        test_start == after_word.cur.start
        test == expr(eat(after_word, "LParen"))
        consequent == block_stmt(eat_with_start(test.ps, "RParen", test_start))
        alternate == IF cur_kind(consequent.ps) = "Else"
                     THEN block_stmt(advance(consequent.ps))
                     ELSE Parsed(consequent.ps, <<>>)
    IN  Parsed(alternate.ps, [type |-> "IfStatement", start |-> start,
                              test |-> test.node, consequent |-> consequent.node,
                              alternate |-> alternate.node])

fn_decl(ps) ==
    LET start == ps.cur.start
        is_async == cur_kind(ps) = "Async"
        after_async == IF is_async THEN eat(ps, "Async") ELSE ps
        named == advance(after_async)
        id == named.cur
        after_id == eat(named, "Identifier")
        params_start == after_id.cur.start
        params == parse_params(eat(after_id, "LBracket"))
        after_params == eat_with_start(params.ps, "RBracket", params_start)
        body_start == after_params.cur.start
        block == body(eat(after_params, "LBrace"))
        after_body == eat_with_start(block.ps, "RBrace", body_start)
    IN  Parsed(after_body, [type |-> "FunctionDeclaration", start |-> start,
                            id |-> id, params |-> params.node,
                            body |-> block.node, is_async |-> is_async])

statement(ps) ==
    CASE cur_kind(ps) = "Let" -> var_decl(ps, FALSE)
      [] cur_kind(ps) \in {"Function", "Async"} -> fn_decl(ps)
      [] cur_kind(ps) = "If" -> if_stmt(ps)
      [] cur_kind(ps) = "For" -> for_stmt(ps)
      [] cur_kind(ps) = "While" -> while_stmt(ps)
      [] cur_kind(ps) = "Loop" -> loop_stmt(ps)
      [] cur_kind(ps) = "Continue" -> continue_stmt(ps)
      [] cur_kind(ps) = "Break" -> break_stmt(ps)
      [] cur_kind(ps) = "Return" -> return_stmt(ps)
      [] cur_kind(ps) = "LBrace" ->
           LET block == block_stmt(ps)
           IN  Parsed(block.ps, [type |-> "BlockStatement", body |-> block.node])
      [] OTHER -> expr_stmt(ps)

\* self.name(arg): the methods that are called from the methods they call
Method(name, ps, arg) ==
    CASE name = "statement" -> statement(ps)
      [] name = "comma" -> Rule("comma", ps, arg)
      [] name = "factor" -> factor(ps)
      [] name = "await_expr" -> await_expr(ps)
      [] name = "delete_expr" -> delete_expr(ps)
      [] name = "new_expr" -> new_expr(ps)
      [] OTHER -> Rule(name, ps, FALSE)

-----------------------------------------------------------------------------
(* The interpreter's specification: the lexer and the parser stay idle *)

LIdle ==
    /\ source = <<>>
    /\ chars = 0
    /\ scans = ScanTable(source)
    /\ tokens = <<>>
    /\ lex_state = "idle"

PIdle ==
    /\ parser = NewParser(<<>>)
    /\ program_body = <<>>
    /\ parse_state = "idle"

Init == IInit /\ LIdle /\ PIdle

Next == INext

Spec == Init /\ [][Next]_vars

-----------------------------------------------------------------------------
(* Lexer: the state machine of tokenize().  Lexer::new takes any source     *)
(* text over LexAlphabet; each step is one iteration of tokenize's loop.    *)

LexAlphabet == {"1", "3", "4", ".", "e", "?", " "}

Sources == UNION {[1..n -> LexAlphabet] : n \in 0..MaxSourceLen}

\* Lexer::new and the entry of tokenize
LInit ==
    /\ source \in Sources
    /\ chars = 0
    /\ scans = ScanTable(source)
    /\ tokens = <<>>
    /\ lex_state = "tokenizing"
    /\ IInit
    /\ PIdle

\* let token = self.next_token(), from where the lexer stands
Scan == scans[chars]

\* the loop of tokenize: a token other than Eof is pushed
TokenizePush ==
    /\ lex_state = "tokenizing"
    /\ ~Scan.reported
    /\ Scan.token.kind # "Eof"
    /\ chars' = Scan.pos
    /\ tokens' = Append(tokens, Scan.token)
    /\ UNCHANGED <<source, scans, lex_state, ivars, pvars>>

\* the loop of tokenize: Eof breaks the loop, the tokens are returned
TokenizeBreak ==
    /\ lex_state = "tokenizing"
    /\ ~Scan.reported
    /\ Scan.token.kind = "Eof"
    /\ chars' = Scan.pos
    /\ lex_state' = "done"
    /\ UNCHANGED <<source, scans, tokens, ivars, pvars>>

\* next_token meets an Unexpected token: report_error ends the process
TokenizeReport ==
    /\ lex_state = "tokenizing"
    /\ Scan.reported
    /\ chars' = Scan.pos
    /\ lex_state' = "failed"
    /\ UNCHANGED <<source, scans, tokens, ivars, pvars>>

LNext ==
    \/ TokenizePush
    \/ TokenizeBreak
    \/ TokenizeReport

LexSpec == LInit /\ [][LNext]_vars

\* tokenize's loop runs on: each iteration follows the one before
LexLiveSpec == LexSpec /\ WF_vars(LNext)

\* tokenize() over the texts of string literals
StrAlphabet == {"\"", "'", Backtick, "\\", "a", " "}

StrSources == UNION {[1..n -> StrAlphabet] : n \in 0..MaxSourceLen}

SInit ==
    /\ source \in StrSources
    /\ chars = 0
    /\ scans = ScanTable(source)
    /\ tokens = <<>>
    /\ lex_state = "tokenizing"
    /\ IInit
    /\ PIdle

StrSpec == SInit /\ [][LNext]_vars

-----------------------------------------------------------------------------
(* Parser: the state machine of parse().  Parser::new takes a program text; *)
(* a step is eat(Start), or one iteration of the loop of the top-level      *)
(* body(), or the break of that loop, on which parse() returns the Ast.     *)

\* the program texts: one statement, alone or after the statement "x; "
Prefixes == {<<>>, <<"x", ";", " ">>}

ParamNames == {"a", "b"}

ParamLists == UNION {[1..n -> ParamNames] : n \in 0..MaxParams}

RECURSIVE JoinComma(_)
JoinComma(names) ==
    IF Len(names) = 0 THEN <<>>
    ELSE IF Len(names) = 1 THEN <<names[1]>>
    ELSE <<names[1], ",", " ">> \o JoinComma(Tail(names))

\* {} and { x; }
FnBodies == {<<"{", "}">>, <<"{", " ", "x", ";", " ", "}">>}

\* fn f[<params>] <body>
FnText(params, braces) == <<"f", "n", " ", "f", "[">> \o JoinComma(params) \o <<"]", " ">> \o braces

FnTexts == {FnText(params, braces) : params \in ParamLists, braces \in FnBodies}

Operands == {"2", "3"}

ChainOperators == {"^", "*", "+"}

RECURSIVE Interleave(_, _)
Interleave(operands, operators) ==
    IF Len(operands) = 1 THEN <<operands[1]>>
    ELSE <<operands[1], operators[1]>> \o Interleave(Tail(operands), Tail(operators))

\* a op b op c ... ;
ChainText(operands, operators) == Interleave(operands, operators) \o <<";">>

ChainTexts ==
    UNION {{ChainText(operands, operators) :
                operands \in [1..n -> Operands],
                operators \in [1..(n - 1) -> ChainOperators]} :
           n \in 1..MaxOperands}

\* let x = ;
LetMissingInit == <<"l", "e", "t", " ", "x", " ", "=", " ", ";">>

LetTexts ==
    {LetMissingInit,
     <<"l", "e", "t", " ", "x", " ", "=", " ", "2", ";">>,   \* let x = 2;
     <<"l", "e", "t", " ", "x", ";">>,   \* let x;
     <<"l", "e", "t", " ", "x", " ", ":", "=", " ", "3", ";">>}   \* let x := 3;

OtherTexts ==
    {<<"}">>,   \* }
     <<"{", " ", "x", ";", " ", "}">>,   \* { x; }
     <<"{", " ", "x", ";">>,   \* { x;
     <<"}", " ", "y", ";">>,   \* } y;
     <<"i", "f", " ", "(", "x", ")", " ", "y", ";", " ", "e", "l", "s", "e", " ", "z", ";">>,   \* if (x) y; else z;
     <<"w", "h", "i", "l", "e", " ", "(", "x", ")", " ", "{", " ", "b", "r", "e", "a", "k", ";", " ", "}">>,   \* while (x) { break; }
     <<"f", "o", "r", " ", "(", "l", "e", "t", " ", "i", " ", "=", " ", "0", ";", " ", "i", ";", " ", "i", ")", " ", "c", "o", "n", "t", "i", "n", "u", "e", ";">>,   \* for (let i = 0; i; i) continue;
     <<"l", "o", "o", "p", " ", "{", " ", "}">>,   \* loop { }
     <<"f", "[", "2", ",", " ", "x", "]", ".", "y", ";">>,   \* f[2, x].y;
     <<"x", " ", "?", " ", "2", " ", ":", " ", "3", ";">>,   \* x ? 2 : 3;
     <<"?">>}   \* ?

\* constructs whose closing token is missing: the text, the offset of the
\* opening delimiter and the closing kind
Unclosed ==
    {[text |-> <<"{", " ", "x", ";">>,   \* { x;
      open |-> 0, close |-> "RBrace"],
     [text |-> <<"i", "f", " ", "(", "x", ";">>,   \* if (x;
      open |-> 3, close |-> "RParen"],
     [text |-> <<"w", "h", "i", "l", "e", " ", "(", "x", ";">>,   \* while (x;
      open |-> 6, close |-> "RParen"],
     [text |-> <<"f", "o", "r", " ", "(", "l", "e", "t", " ", "i", " ", "=", " ", "0", ";", " ", "i", ";", " ", "i", ";">>,   \* for (let i = 0; i; i;
      open |-> 4, close |-> "RParen"],
     [text |-> <<"f", "[", "x", ";">>,   \* f[x;
      open |-> 1, close |-> "RBracket"],
     [text |-> <<"[", "x", ";">>,   \* [x;
      open |-> 0, close |-> "RBracket"],
     [text |-> <<"(", "x", ";">>,   \* (x;
      open |-> 0, close |-> "RParen"],
     [text |-> <<"f", "n", " ", "f", "[", "a", " ", "{", "}">>,   \* fn f[a {}
      open |-> 4, close |-> "RBracket"],
     [text |-> <<"f", "n", " ", "f", "[", "a", "]", " ", "{", " ", "x", ";">>,   \* fn f[a] { x;
      open |-> 8, close |-> "RBrace"]}

UnclosedTexts == {u.text : u \in Unclosed}

\* <n>x; and <n>(x);
ImplicitText(operand, parens) ==
    IF parens THEN <<operand, "(", "x", ")", ";">> ELSE <<operand, "x", ";">>

ImplicitTexts == {ImplicitText(operand, parens) : operand \in Operands, parens \in BOOLEAN}

\* 2 * 3 x;
ProductThenOperand == <<"2", " ", "*", " ", "3", " ", "x", ";">>

JuxtaposedTexts ==
    {ProductThenOperand,
     <<"2", " ", "x", " ", "*", " ", "3", ";">>,   \* 2 x * 3;
     <<"x", " ", "y", ";">>,   \* x y;
     <<"2", " ", "/", " ", "3", " ", "(", "x", ")", ";">>}   \* 2 / 3 (x);

\* 1 + 2 * 3;
OnePlusTwoTimesThree == <<"1", " ", "+", " ", "2", " ", "*", " ", "3", ";">>

\* calls f[e1, ..., en]; each with n, the number of its top-level arguments
Calls ==
    {[text |-> <<"f", "[", "]", ";">>,   \* f[];
      n |-> 0],
     [text |-> <<"f", "[", "2", "]", ";">>,   \* f[2];
      n |-> 1],
     [text |-> <<"f", "[", "2", ",", " ", "3", "]", ";">>,   \* f[2, 3];
      n |-> 2],
     [text |-> <<"f", "[", "[", "2", ",", " ", "3", "]", "]", ";">>,   \* f[[2, 3]];
      n |-> 1],
     [text |-> <<"f", "[", "(", "2", ",", " ", "3", ")", "]", ";">>,   \* f[(2, 3)];
      n |-> 1],
     [text |-> <<"f", "[", "[", "2", ",", " ", "3", "]", ",", " ", "x", "]", ";">>,   \* f[[2, 3], x];
      n |-> 2],
     [text |-> <<"f", "[", "2", " ", "+", " ", "3", ",", " ", "x", ",", " ", "[", "]", "]", ";">>,   \* f[2 + 3, x, []];
      n |-> 3]}

CallTexts == {c.text : c \in Calls}

StatementTexts ==
    FnTexts \cup ChainTexts \cup LetTexts \cup OtherTexts \cup UnclosedTexts
        \cup ImplicitTexts \cup JuxtaposedTexts \cup {OnePlusTwoTimesThree}
        \cup CallTexts

Programs == {prefix \o text : prefix \in Prefixes, text \in StatementTexts}

\* Parser::new
PInit ==
    /\ parser \in {NewParser(src) : src \in Programs}
    /\ program_body = <<>>
    /\ parse_state = "new"
    /\ IInit
    /\ LIdle

\* parse: eat(Start)
ParseStart ==
    /\ parse_state = "new"
    /\ parser' = eat(parser, "Start")
    /\ parse_state' = IF parser'.failed THEN "failed" ELSE "body"
    /\ UNCHANGED <<program_body, ivars, lvars>>

\* body.push(self.statement()), unless a report ends the process
Push(next) ==
    /\ parser' = next.ps
    /\ parse_state' = IF parser'.failed THEN "failed" ELSE "body"
    /\ program_body' = IF parser'.failed THEN program_body
                       ELSE Append(program_body, next.node)

ParseStatement ==
    /\ parse_state = "body"
    /\ cur_kind(parser) \notin {"Eof", "RBrace"}
    /\ Push(Method("statement", parser, FALSE))
    /\ UNCHANGED <<ivars, lvars>>

\* the loop of the top-level body breaks: parse() returns the Ast
ParseReturn ==
    /\ parse_state = "body"
    /\ cur_kind(parser) \in {"Eof", "RBrace"}
    /\ parse_state' = "done"
    /\ UNCHANGED <<parser, program_body, ivars, lvars>>

PNext ==
    \/ ParseStart
    \/ ParseStatement
    \/ ParseReturn

ParseSpec == PInit /\ [][PNext]_vars

-----------------------------------------------------------------------------
(* Lexer: properties *)

\* kind and span of a token
KindSpan(t) == <<t.kind, t.start, t.end>>

KindSpans(ts) == [i \in 1..Len(ts) |-> KindSpan(ts[i])]

\* C5: number lexing with a decimal point.  "3.14" lexes to exactly one
\* token, a Number spanning [0,4); and no Number token ends right before a
\* '.', 'e' or 'E' that is followed by a digit (such a pair is consumed as
\* part of the same Number token).
C5_NumberTakesPointAndDigit ==
    lex_state = "done" =>
        /\ source = <<"3", ".", "1", "4">> => KindSpans(tokens) = <<<<"Number", 0, 4>>>>
        /\ \A i \in 1..Len(tokens) :
              LET t == tokens[i]
              IN  (t.kind = "Number" /\ t.end + 2 <= Len(source)) =>
                      ~(/\ source[t.end + 1] \in {".", "e", "E"}
                        /\ IsDigit(source[t.end + 2]))

\* C6: "3..4" lexes to exactly three tokens: Number [0,1), Range [1,3),
\* Number [3,4) (and so does any digit, "..", digit).
C6_RangeBetweenNumbers ==
    (/\ lex_state = "done"
     /\ Len(source) = 4
     /\ IsDigit(source[1]) /\ source[2] = "." /\ source[3] = "." /\ IsDigit(source[4]))
    => KindSpans(tokens) = <<<<"Number", 0, 1>>, <<"Range", 1, 3>>, <<"Number", 3, 4>>>>

\* C6, the case: "3..4" has been tokenized
C6_Witness ==
    /\ lex_state = "done"
    /\ source = <<"3", ".", ".", "4">>
    /\ Len(tokens) = 3
    /\ tokens[1].value = ValueNumber([m |-> 3, e |-> 0])
    /\ tokens[3].value = ValueNumber([m |-> 4, e |-> 0])

\* C14: tokenize() terminates: every next_token call that does not return
\* Eof consumes at least one character, the returned sequence never holds
\* an Eof token, once next_token has returned Eof every later call returns
\* Eof again, and the loop of tokenize comes to its end.
C14_TokenizeTerminates ==
    /\ [](/\ \A i \in 1..Len(tokens) : tokens[i].kind # "Eof"
          /\ LET r == next_token(source, chars)
             IN  /\ r.token.kind # "Eof" => r.pos > chars
                 /\ r.token.kind = "Eof" =>
                        /\ r.pos = Len(source)
                        /\ next_token(source, r.pos).token.kind = "Eof"
                        /\ next_token(source, r.pos).pos = r.pos
          /\ lex_state = "done" =>
                 /\ chars = Len(source)
                 /\ next_token(source, chars).token.kind = "Eof")
    /\ <>(lex_state \in {"done", "failed"})

\* C14, the case: tokenize has returned a sequence of several tokens
C14_Witness ==
    /\ lex_state = "done"
    /\ Len(tokens) >= 3
    /\ chars = Len(source)

\* the characters of src from offset a up to offset b
Between(src, a, b) == {src[k] : k \in (a + 1)..b}

\* C15: token spans.  Every token has start <= end <= len(source); each
\* token starts at or after the end of the one before, so no character
\* belongs to two tokens; and the characters skipped between two consecutive
\* tokens are only trivia (space, tab, CR, LF).
C15_TokenSpans ==
    /\ \A t \in {tokens[i] : i \in 1..Len(tokens)} \cup {next_token(source, chars).token} :
          /\ t.start <= t.end
          /\ t.end <= Len(source)
    /\ \A i \in 1..(Len(tokens) - 1) :
          /\ tokens[i + 1].start >= tokens[i].end
          /\ Between(source, tokens[i].end, tokens[i + 1].start)
                 \subseteq {" ", "\t", "\r", "\n"}

\* C15, the case: two tokens with trivia between them, and two adjacent ones
C15_Witness ==
    /\ lex_state = "done"
    /\ Len(tokens) = 3
    /\ tokens[2].start > tokens[1].end
    /\ tokens[3].start = tokens[2].end

Quotes == {"\"", "'", Backtick}

\* the number of backslashes in a row that end right before index k, none
\* of them at or before index low
RECURSIVE BackslashRun(_, _, _)
BackslashRun(src, k, low) ==
    IF k - 1 > low /\ src[k - 1] = "\\" THEN 1 + BackslashRun(src, k - 1, low)
    ELSE 0

\* the index of the quote that ends the string opened at index open: the
\* first later occurrence of the same quote character that no backslash
\* skips; 0 if there is none
ClosingQuote(src, open) ==
    LET closing == {e \in (open + 1)..Len(src) :
                        /\ src[e] = src[open]
                        /\ BackslashRun(src, e, open) % 2 = 0}
    IN  IF closing = {} THEN 0
        ELSE CHOOSE e \in closing : \A f \in closing : e <= f

\* C16: string lexing.  A string opened by one of the three quote characters
\* ends at the first later occurrence of that same quote character that is
\* not skipped by a backslash (a backslash skips exactly the next character;
\* the other two quote characters do not end it); the token's span includes
\* both quotes and its value is the text strictly between them; if the input
\* ends first, the token kind is Unexpected.
C16_StringLexing ==
    LET start == skip_trivia(source, chars)
        r == next_token(source, chars)
        closing == ClosingQuote(source, start + 1)
    IN  (/\ lex_state = "tokenizing"
         /\ start < Len(source)
         /\ source[start + 1] \in Quotes)
        => IF closing = 0
           THEN r.token.kind = "Unexpected" /\ r.reported
           ELSE /\ ~r.reported
                /\ r.token.kind = "Str"
                /\ r.token.start = start
                /\ r.token.end = closing
                /\ r.token.value = ValueStr(SubSeq(source, start + 2, closing - 1))

\* C16, the case: a string holding an escaped quote has been lexed
C16_Witness ==
    /\ lex_state = "done"
    /\ source = <<"\"", "\\", "\"", "\"">>
    /\ Len(tokens) = 1
    /\ tokens[1].kind = "Str"
    /\ tokens[1].value = ValueStr(<<"\\", "\"">>)

-----------------------------------------------------------------------------
(* Parser: properties *)

\* parse() has returned or the process has ended
Finished == parse_state \in {"done", "failed"}

\* the operators and operands of an expression, without its spans
RECURSIVE Shape(_)
Shape(node) ==
    CASE node.type = "Literal" -> [literal |-> node.token.value]
      [] node.type = "Identifier" -> [identifier |-> node.token.value.text]
      [] node.type = "BinaryExpression" ->
           [operator |-> node.operator, left |-> Shape(node.left),
            right |-> Shape(node.right)]
      [] OTHER -> [type |-> node.type]

Num(n) == [literal |-> ValueNumber(Decimal(n, 0))]

Id(name) == [identifier |-> <<name>>]

Binary(operator, left, right) ==
    [operator |-> operator, left |-> left, right |-> right]

\* the expression of the last statement parsed
LastExpression == Shape(Last(program_body).expression)

C8_ReturnsOnlyAtEof == parse_state = "done" => cur_kind(parser) = "Eof"

\* C9: fn f[<params>] { ... } parses for every parameter list, the empty one
\* included, and the declaration's params are the identifiers in order.
C9_ParamsInOrder ==
    \A prefix \in Prefixes, params \in ParamLists, braces \in FnBodies :
        (Finished /\ parser.src = prefix \o FnText(params, braces)) =>
            /\ parse_state = "done"
            /\ Last(program_body).type = "FunctionDeclaration"
            /\ Len(Last(program_body).params) = Len(params)
            /\ \A i \in 1..Len(params) :
                  /\ Last(program_body).params[i].kind = "Identifier"
                  /\ Last(program_body).params[i].value = ValueStr(<<params[i]>>)

\* C10: "2^3^2" parses as Power(2, Power(3, 2)): a chain of ^ nests to the
\* right.
C10_PowerNestsRight ==
    (Finished /\ parser.src = ChainText(<<"2", "3", "2">>, <<"^", "^">>)) =>
        /\ parse_state = "done"
        /\ LastExpression = Binary("Power", Num(2), Binary("Power", Num(3), Num(2)))

\* C10, as the code has it: a chain a ^ b ^ c nests to the left, so "2^3^2"
\* parses as Power(Power(2, 3), 2).
C10_PowerNestsLeft ==
    \A prefix \in Prefixes, abc \in [1..3 -> {2, 3}] :
        (/\ Finished
         /\ parser.src = prefix \o ChainText([i \in 1..3 |-> FormatUsize(abc[i])[1]],
                                             <<"^", "^">>))
        => /\ parse_state = "done"
           /\ LastExpression =
                  Binary("Power", Binary("Power", Num(abc[1]), Num(abc[2])), Num(abc[3]))

\* C10, the case: "2^3^2;" has been parsed
C10_Witness ==
    /\ parse_state = "done"
    /\ parser.src = ChainText(<<"2", "3", "2">>, <<"^", "^">>)
    /\ Len(program_body) = 1
    /\ Last(program_body).expression.operator = "Power"

\* C11: every bracketed or braced construct (block braces, if/while/for
\* parentheses, call and sequence brackets, function parameter brackets and
\* body braces) reports a missing closing token with a diagnostic whose start
\* offset is that of the matching opening delimiter.
C11_AnchoredAtOpening ==
    \A prefix \in Prefixes, u \in Unclosed :
        (Finished /\ parser.src = prefix \o u.text) =>
            /\ parse_state = "failed"
            /\ parser.diag.message = "Expected"
            /\ parser.diag.expected = KindDisplay(u.close)
            /\ parser.diag.start = Len(prefix) + u.open

\* C12: implicit multiplication.  "2x" and "2(x)" each parse to a binary
\* node with operator Multiply, left operand the literal 2 and right operand
\* the identifier x (for "2(x)", the parenthesized expression x); and so for
\* any number literal in place of 2.
C12_ImplicitMultiply ==
    \A prefix \in Prefixes, n \in {2, 3}, parens \in BOOLEAN :
        (Finished /\ parser.src = prefix \o ImplicitText(FormatUsize(n)[1], parens)) =>
            /\ parse_state = "done"
            /\ LastExpression = Binary("Multiply", Num(n), Id("x"))

\* C12, the case: "2x;" and "2(x);" have been parsed
C12_Witness ==
    /\ parse_state = "done"
    /\ parser.src \in {ImplicitText("2", FALSE), ImplicitText("2", TRUE)}
    /\ Len(program_body) = 1
    /\ Last(program_body).expression.type = "BinaryExpression"

\* C13: operator precedence.  "1 + 2 * 3" parses as Plus(1, Multiply(2, 3));
\* in a + b * c the right operand of Plus is the Multiply node.
C13_MultiplyBindsTighter ==
    /\ (Finished /\ parser.src = OnePlusTwoTimesThree) =>
            /\ parse_state = "done"
            /\ LastExpression =
                   Binary("Plus", Num(1), Binary("Multiply", Num(2), Num(3)))
    /\ \A prefix \in Prefixes, abc \in [1..3 -> {2, 3}] :
          (/\ Finished
           /\ parser.src = prefix \o ChainText([i \in 1..3 |-> FormatUsize(abc[i])[1]],
                                               <<"+", "*">>))
          => /\ parse_state = "done"
             /\ LastExpression =
                    Binary("Plus", Num(abc[1]),
                           Binary("Multiply", Num(abc[2]), Num(abc[3])))

\* C13, the case: "1 + 2 * 3;" has been parsed
C13_Witness ==
    /\ parse_state = "done"
    /\ parser.src = OnePlusTwoTimesThree
    /\ Len(program_body) = 1
    /\ Last(program_body).expression.operator = "Plus"

\* C17: juxtaposition rule.  Within a term, whenever a power-level
\* expression is immediately followed by an operand-starting token
\* (Identifier, LParen or Number) with no operator in between, the parser
\* synthesizes a Multiply node, also when that power-level expression is the
\* right operand of an explicit *, / or %: "2 * 3 x" parses, as a product.
C17_JuxtapositionAnywhereInTerm ==
    \A prefix \in Prefixes, text \in JuxtaposedTexts :
        (Finished /\ parser.src = prefix \o text) =>
            /\ parse_state = "done"
            /\ Last(program_body).type = "ExpressionStatement"
            /\ Last(program_body).expression.type = "BinaryExpression"
            /\ \/ Last(program_body).expression.operator = "Multiply"
               \/ /\ Last(program_body).expression.right.type = "BinaryExpression"
                  /\ Last(program_body).expression.right.operator = "Multiply"


\* the program is one of the prefixes followed by the text
Ends(text) == \E prefix \in Prefixes : parser.src = prefix \o text

\* C22: for a call id[e1, ..., en] with n >= 0 top-level comma-separated
\* expressions, parsing succeeds and the CallExpression's arguments are a
\* SequenceExpression with exactly n elements, also when some ei is itself a
\* bracketed sequence literal or a parenthesized comma list: f[[2, 3]] has
\* one argument and f[2, 3] has two.
C22_OneArgumentPerTopLevelExpression ==
    \A c \in Calls :
        (Finished /\ Ends(c.text)) =>
            /\ parse_state = "done"
            /\ LET call_node == Last(program_body).expression
               IN  /\ call_node.type = "CallExpression"
                   /\ call_node.arguments.type = "SequenceExpression"
                   /\ Len(call_node.arguments.expressions) = c.n

\* the expression types whose nodes carry a span
SpannedTypes ==
    {"BinaryExpression", "UnaryExpression", "ConditionalExpression",
     "CallExpression", "MemberExpression", "SequenceExpression"}

\* C24: every expression node the parser builds (binary, unary, conditional,
\* call, member, sequence) starts at the start offset of its first token and
\* ends at the end offset of its last token, with start <= end <=
\* len(source); the span never includes the token that follows the
\* construct.  For an expression statement written right after the prefix
\* and closed by the ';' that ends the source, the node spans from the end
\* of the prefix to the offset of that ';'.
C24_SpanCoversOwnTokens ==
    \A prefix \in Prefixes, text \in ChainTexts \cup CallTexts \cup {OnePlusTwoTimesThree} :
        (/\ parse_state = "done"
         /\ parser.src = prefix \o text
         /\ Last(program_body).expression.type \in SpannedTypes) =>
            LET node == Last(program_body).expression
            IN  /\ node.start = Len(prefix)
                /\ node.end = Len(parser.src) - 1
                /\ node.start <= node.end
                /\ node.end <= Len(parser.src)


=============================================================================
